---- MODULE Spec2Model ----
(***************************************************************************)
(* Model of src/src/App.tsx (DatabaseDesignApp): the React state of the    *)
(* component, the three handlers (handleLogin, handleGenerateDesign,       *)
(* handleLogout), the pure function generateMermaidERD, and the requests   *)
(* that are in flight between a handler's submit part and its resumption   *)
(* after `await`.                                                          *)
(*                                                                         *)
(* Two specifications:                                                     *)
(*   Spec    the handlers as logical operations, callable in any state     *)
(*           (the input layer bypassed);                                   *)
(*   SpecUI  the handlers as reachable through the rendered controls       *)
(*           (view selection, `disabled` attributes).                      *)
(***************************************************************************)
EXTENDS Integers, Sequences, FiniteSets, TLC

\* ---------------------------------------------------------------- bounds
\* requests (of both kinds together) awaiting their response at one time
MaxInFlight == 2

\* ------------------------------------------------------------- constants
\* null of `string | null` state (error, designResult, databaseSchema)
Null == "<null>"
\* useState('') initial token
EmptyToken == ""
LoginFailedMsg == "Login failed. Please check your credentials."
GenerateFailedMsg == "Failed to generate database design."

\* tokens the auth collaborator may return (opaque, non-empty strings)
Tokens == {"t1", "t2"}

\* ------------------------------------------------- design recommendation
\* A response body of /api/generate-design.  hasRec / hasTables / hasColumns
\* / hasRelationships say whether the property is present in the JSON value.
Col(type, name, nullable) == [type |-> type, name |-> name, nullable |-> nullable]
Rel(target) == [targetTable |-> target]
Table(name, columns, relationships) ==
    [name |-> name, hasColumns |-> TRUE, columns |-> columns,
     hasRelationships |-> TRUE, relationships |-> relationships]
TableNoRels(name, columns) ==
    [name |-> name, hasColumns |-> TRUE, columns |-> columns,
     hasRelationships |-> FALSE, relationships |-> <<>>]
TableNoCols(name) ==
    [name |-> name, hasColumns |-> FALSE, columns |-> <<>>,
     hasRelationships |-> FALSE, relationships |-> <<>>]
Design(tables) == [hasRec |-> TRUE, hasTables |-> TRUE, tables |-> tables]

D_Users == Design(<<Table("Users", <<Col("int", "id", FALSE)>>, <<>>)>>)
D_Orders ==
    Design(<<TableNoRels("Users", <<Col("int", "id", FALSE)>>),
             Table("Orders", <<Col("int", "user_id", TRUE)>>, <<Rel("Users")>>)>>)
D_NoRec == [hasRec |-> FALSE, hasTables |-> FALSE, tables |-> <<>>]
D_NoColumns == Design(<<TableNoCols("Users")>>)

WellFormedData == {D_Users, D_Orders}
MalformedData == {D_NoRec, D_NoColumns}
ResponseData == WellFormedData \cup MalformedData

\* ------------------------------------------------------- JSON.stringify
RECURSIVE Indent(_)
Indent(n) == IF n = 0 THEN "" ELSE " " \o Indent(n - 1)

RECURSIVE JoinWith(_, _)
JoinWith(parts, sep) ==
    IF Len(parts) = 0 THEN ""
    ELSE IF Len(parts) = 1 THEN parts[1]
    ELSE parts[1] \o sep \o JoinWith(Tail(parts), sep)

Quote(s) == "\"" \o s \o "\""
Member(key, value) == Quote(key) \o ": " \o value

\* JSON.stringify(value, null, 2) of an object / array whose members are
\* already rendered, nested at indentation ind
StringifyObject(members, ind) ==
    IF Len(members) = 0 THEN "{}"
    ELSE "{\n"
         \o JoinWith([i \in 1..Len(members) |-> Indent(ind + 2) \o members[i]], ",\n")
         \o "\n" \o Indent(ind) \o "}"
StringifyArray(items, ind) ==
    IF Len(items) = 0 THEN "[]"
    ELSE "[\n"
         \o JoinWith([i \in 1..Len(items) |-> Indent(ind + 2) \o items[i]], ",\n")
         \o "\n" \o Indent(ind) \o "]"

StringifyColumn(c, ind) ==
    StringifyObject(<<Member("name", Quote(c.name)),
                      Member("type", Quote(c.type)),
                      Member("nullable", IF c.nullable THEN "true" ELSE "false")>>, ind)
StringifyRelationship(r, ind) ==
    StringifyObject(<<Member("targetTable", Quote(r.targetTable))>>, ind)
StringifyTable(t, ind) ==
    StringifyObject(
        <<Member("name", Quote(t.name))>>
        \o (IF t.hasColumns
            THEN <<Member("columns",
                     StringifyArray([i \in 1..Len(t.columns) |->
                         StringifyColumn(t.columns[i], ind + 4)], ind + 2))>>
            ELSE <<>>)
        \o (IF t.hasRelationships
            THEN <<Member("relationships",
                     StringifyArray([i \in 1..Len(t.relationships) |->
                         StringifyRelationship(t.relationships[i], ind + 4)], ind + 2))>>
            ELSE <<>>),
        ind)
\* JSON.stringify(designData, null, 2)
Stringify(designData) ==
    StringifyObject(
        IF ~designData.hasRec THEN <<>>
        ELSE <<Member("designRecommendations",
                 StringifyObject(
                     IF ~designData.hasTables THEN <<>>
                     ELSE <<Member("tables",
                              StringifyArray([i \in 1..Len(designData.tables) |->
                                  StringifyTable(designData.tables[i], 6)], 4))>>,
                     2))>>,
        0)

\* --------------------------------------------------- generateMermaidERD
RECURSIVE ColumnLines(_)
ColumnLines(columns) ==
    IF Len(columns) = 0 THEN ""
    ELSE "        " \o Head(columns).type \o " " \o Head(columns).name \o "\n"
         \o ColumnLines(Tail(columns))

\* entity blocks, leaving out a table that has no columns
RECURSIVE EntityBlocks_SkipEmpty(_)
EntityBlocks_SkipEmpty(tables) ==
    IF Len(tables) = 0 THEN ""
    ELSE (IF Len(Head(tables).columns) = 0 THEN ""
          ELSE "    " \o Head(tables).name \o " {\n"
               \o ColumnLines(Head(tables).columns)
               \o "    }\n")
         \o EntityBlocks_SkipEmpty(Tail(tables))

RECURSIVE EntityBlocks(_)
EntityBlocks(tables) ==
    IF Len(tables) = 0 THEN ""
    ELSE "    " \o Head(tables).name \o " {\n"
         \o ColumnLines(Head(tables).columns)
         \o "    }\n"
         \o EntityBlocks(Tail(tables))

\* relationship lines naming the owning table first
RECURSIVE RelationshipLinesOf_OwnerFirst(_, _)
RelationshipLinesOf_OwnerFirst(table, relationships) ==
    IF Len(relationships) = 0 THEN ""
    ELSE "    " \o table.name \o " }o--|| " \o Head(relationships).targetTable
         \o " : relates\n"
         \o RelationshipLinesOf_OwnerFirst(table, Tail(relationships))

RECURSIVE RelationshipLinesOf(_, _)
RelationshipLinesOf(table, relationships) ==
    IF Len(relationships) = 0 THEN ""
    ELSE "    " \o Head(relationships).targetTable \o " }o--|| " \o table.name
         \o " : relates\n"
         \o RelationshipLinesOf(table, Tail(relationships))

RECURSIVE RelationshipLines(_)
RelationshipLines(tables) ==
    IF Len(tables) = 0 THEN ""
    ELSE (IF Head(tables).hasRelationships
          THEN RelationshipLinesOf(Head(tables), Head(tables).relationships)
          ELSE "")
         \o RelationshipLines(Tail(tables))

\* the TypeError cases: designRecommendations / tables / columns undefined
generateMermaidERDThrows(designData) ==
    \/ ~designData.hasRec
    \/ ~designData.hasTables
    \/ \E i \in 1..Len(designData.tables) : ~designData.tables[i].hasColumns

\* a single pass: each table's relationship lines right after its block
RECURSIVE BlocksWithRelationships(_)
BlocksWithRelationships(tables) ==
    IF Len(tables) = 0 THEN ""
    ELSE EntityBlocks(<<Head(tables)>>)
         \o RelationshipLines(<<Head(tables)>>)
         \o BlocksWithRelationships(Tail(tables))
generateMermaidERD_SinglePass(designData) ==
    "erDiagram\n" \o BlocksWithRelationships(designData.tables)

generateMermaidERD(designData) ==
    "erDiagram\n"
    \o EntityBlocks(designData.tables)
    \o RelationshipLines(designData.tables)

\* the two pure functions tabulated over the response bodies of the model
StringifyOf == [d \in ResponseData |-> Stringify(d)]
generateMermaidERDOf ==
    [d \in ResponseData |->
        IF generateMermaidERDThrows(d) THEN Null ELSE generateMermaidERD(d)]
ThrowsOf == [d \in ResponseData |-> generateMermaidERDThrows(d)]

\* ----------------------------------------------------------------- state
VARIABLES
    isLoggedIn,          \* useState(false)
    token,               \* useState('')
    error,               \* useState<string | null>(null)
    isLoggingIn,         \* useState(false)
    isGeneratingDesign,  \* useState(false)
    designResult,        \* useState<string | null>(null)
    databaseSchema,      \* useState<string | null>(null)
    loginReqs,           \* POST /api/login calls awaiting their response, in send order
    genReqs,             \* POST /api/generate-design calls awaiting their response
    last,                \* bookkeeping: the handler step taken last
    lastLoginToken,      \* bookkeeping: token of the login response handled last
    call,                \* SpecPure: the pure function applied and its arguments
    ret                  \* SpecPure: its result, once it has returned

pureVars == <<call, ret>>
vars == <<isLoggedIn, token, error, isLoggingIn, isGeneratingDesign,
          designResult, databaseSchema, loginReqs, genReqs, last, lastLoginToken,
          call, ret>>

\* no pure call under way (Spec, SpecUI)
NoCall == [fn |-> "none"]
NotReturned == [done |-> FALSE]
Returned(value) == [done |-> TRUE, value |-> value]

RemoveAt(seq, i) == SubSeq(seq, 1, i - 1) \o SubSeq(seq, i + 1, Len(seq))
\* bookkeeping: a request that a logout has overtaken
MarkStale(reqs) == [i \in 1..Len(reqs) |-> [reqs[i] EXCEPT !.stale = TRUE]]
Step(op, stale) == [op |-> op, stale |-> stale, overtaken |-> FALSE]
\* bookkeeping: the requests sent before position i of the sequence the
\* handled request was taken from; their response comes after that of a
\* request sent later
MarkOvertaken(reqs, i) ==
    [j \in 1..Len(reqs) |-> IF j < i THEN [reqs[j] EXCEPT !.overtaken = TRUE] ELSE reqs[j]]
\* bookkeeping: a generate-design response handled, of request req
GenStep(op, req) == [op |-> op, stale |-> req.stale, overtaken |-> req.overtaken]
GenSuccessStep(op, req, designData) ==
    [op |-> op, stale |-> req.stale, overtaken |-> req.overtaken, data |-> designData]

Init ==
    /\ isLoggedIn = FALSE
    /\ token = EmptyToken
    /\ error = Null
    /\ isLoggingIn = FALSE
    /\ isGeneratingDesign = FALSE
    /\ designResult = Null
    /\ databaseSchema = Null
    /\ loginReqs = <<>>
    /\ genReqs = <<>>
    /\ last = Step("init", FALSE)
    /\ lastLoginToken = EmptyToken
    /\ call = NoCall
    /\ ret = NotReturned

\* ------------------------------------------------------------ handleLogin
\* up to the await: reset error, set loading, send the request
handleLoginSubmit ==
    /\ Len(loginReqs) + Len(genReqs) < MaxInFlight
    /\ error' = Null
    /\ isLoggingIn' = TRUE
    /\ loginReqs' = Append(loginReqs, [stale |-> FALSE])
    /\ last' = Step("loginSubmit", FALSE)
    /\ UNCHANGED <<isLoggedIn, token, isGeneratingDesign, designResult,
                   databaseSchema, genReqs, lastLoginToken>>

\* the try block without setToken
handleLoginSuccess_KeepsToken(i, responseToken) ==
    /\ i \in 1..Len(loginReqs)
    /\ isLoggedIn' = TRUE
    /\ isLoggingIn' = FALSE
    /\ loginReqs' = RemoveAt(loginReqs, i)
    /\ last' = Step("loginSuccess", loginReqs[i].stale)
    /\ lastLoginToken' = responseToken
    /\ UNCHANGED <<token, error, isGeneratingDesign, designResult, databaseSchema,
                   genReqs>>

\* try block after the await, then finally
handleLoginSuccess(i, responseToken) ==
    /\ i \in 1..Len(loginReqs)
    /\ token' = responseToken
    /\ isLoggedIn' = TRUE
    /\ isLoggingIn' = FALSE
    /\ loginReqs' = RemoveAt(loginReqs, i)
    /\ last' = Step("loginSuccess", loginReqs[i].stale)
    /\ lastLoginToken' = responseToken
    /\ UNCHANGED <<error, isGeneratingDesign, designResult, databaseSchema, genReqs>>

\* the catch block without setIsLoggedIn(false)
handleLoginFailure_KeepView(i) ==
    /\ i \in 1..Len(loginReqs)
    /\ error' = LoginFailedMsg
    /\ isLoggingIn' = FALSE
    /\ loginReqs' = RemoveAt(loginReqs, i)
    /\ last' = Step("loginFailure", loginReqs[i].stale)
    /\ UNCHANGED <<isLoggedIn, token, isGeneratingDesign, designResult,
                   databaseSchema, genReqs, lastLoginToken>>

\* catch block, then finally
handleLoginFailure(i) ==
    /\ i \in 1..Len(loginReqs)
    /\ error' = LoginFailedMsg
    /\ isLoggedIn' = FALSE
    /\ isLoggingIn' = FALSE
    /\ loginReqs' = RemoveAt(loginReqs, i)
    /\ last' = Step("loginFailure", loginReqs[i].stale)
    /\ UNCHANGED <<token, isGeneratingDesign, designResult, databaseSchema,
                   genReqs, lastLoginToken>>

\* --------------------------------------------------- handleGenerateDesign
\* values of the source-type select (its four source options; the empty
\* placeholder option is among PureSourceTypes) and of the connection-string
\* input at the moment of the click
InputSourceTypes == {"csv", "api", "prompt", "database"}
InputConnectionStrings == {"/data/x.csv"}

\* sourceConfig with both properties always present, '' when not selected
SourceConfig_EmptyStrings(sourceType, connectionString) ==
    [k \in {"path", "url"} |->
        IF (k = "path" /\ sourceType = "csv") \/ (k = "url" /\ sourceType = "api")
        THEN connectionString ELSE ""]

\* sourceConfig as serialised: a property whose value is undefined is absent
SourceConfig(sourceType, connectionString) ==
    [k \in (IF sourceType = "csv" THEN {"path"} ELSE {})
           \cup (IF sourceType = "api" THEN {"url"} ELSE {})
        |-> connectionString]

\* the request as sent: body, and the Authorization header carrying the token
\* of the render the callback was created in (useCallback deps [token])
GenRequest(sourceType, connectionString, bearer) ==
    [sourceType |-> sourceType,
     connectionString |-> connectionString,
     sourceConfig |-> SourceConfig(sourceType, connectionString),
     bearer |-> bearer,
     stale |-> FALSE,
     overtaken |-> FALSE]

\* the submit part, also dropping the diagram of the previous result
handleGenerateDesignSubmit_ClearsSchema(sourceType, connectionString) ==
    /\ Len(loginReqs) + Len(genReqs) < MaxInFlight
    /\ error' = Null
    /\ isGeneratingDesign' = TRUE
    /\ databaseSchema' = Null
    /\ genReqs' = Append(genReqs, GenRequest(sourceType, connectionString, token))
    /\ last' = Step("generateSubmit", FALSE)
    /\ UNCHANGED <<isLoggedIn, token, isLoggingIn, designResult,
                   loginReqs, lastLoginToken>>

\* the submit part with the callback of the first render (deps [] instead
\* of [token]): the header carries the initial token
handleGenerateDesignSubmit_StaleClosure(sourceType, connectionString) ==
    /\ Len(loginReqs) + Len(genReqs) < MaxInFlight
    /\ error' = Null
    /\ isGeneratingDesign' = TRUE
    /\ genReqs' = Append(genReqs, GenRequest(sourceType, connectionString, EmptyToken))
    /\ last' = Step("generateSubmit", FALSE)
    /\ UNCHANGED <<isLoggedIn, token, isLoggingIn, designResult, databaseSchema,
                   loginReqs, lastLoginToken>>

\* up to the await: read the inputs, reset error, set loading, send the request
handleGenerateDesignSubmit(sourceType, connectionString) ==
    /\ Len(loginReqs) + Len(genReqs) < MaxInFlight
    /\ error' = Null
    /\ isGeneratingDesign' = TRUE
    /\ genReqs' = Append(genReqs, GenRequest(sourceType, connectionString, token))
    /\ last' = Step("generateSubmit", FALSE)
    /\ UNCHANGED <<isLoggedIn, token, isLoggingIn, designResult, databaseSchema,
                   loginReqs, lastLoginToken>>

\* setIsGeneratingDesign(false) as the last statement of the try block
\* instead of in finally: not reached when generateMermaidERD throws
handleGenerateDesignSuccess_NoFinally(i, designData) ==
    /\ i \in 1..Len(genReqs)
    /\ designResult' = StringifyOf[designData]
    /\ IF ThrowsOf[designData]
       THEN /\ error' = GenerateFailedMsg
            /\ UNCHANGED <<databaseSchema, isGeneratingDesign>>
       ELSE /\ databaseSchema' = generateMermaidERDOf[designData]
            /\ isGeneratingDesign' = FALSE
            /\ UNCHANGED error
    /\ genReqs' = MarkOvertaken(RemoveAt(genReqs, i), i)
    /\ last' = GenSuccessStep(IF ThrowsOf[designData]
                              THEN "generateMalformed" ELSE "generateSuccess",
                              genReqs[i], designData)
    /\ UNCHANGED <<isLoggedIn, token, isLoggingIn, loginReqs, lastLoginToken>>

\* a 2xx response stored only when it answers the request sent last
handleGenerateDesignSuccess_LatestOnly(i, designData) ==
    /\ i \in 1..Len(genReqs)
    /\ IF i < Len(genReqs)
       THEN UNCHANGED <<designResult, databaseSchema, error>>
       ELSE /\ designResult' = StringifyOf[designData]
            /\ IF ThrowsOf[designData]
               THEN /\ error' = GenerateFailedMsg
                    /\ UNCHANGED databaseSchema
               ELSE /\ databaseSchema' = generateMermaidERDOf[designData]
                    /\ UNCHANGED error
    /\ isGeneratingDesign' = FALSE
    /\ genReqs' = MarkOvertaken(RemoveAt(genReqs, i), i)
    /\ last' = GenSuccessStep(IF ThrowsOf[designData]
                              THEN "generateMalformed" ELSE "generateSuccess",
                              genReqs[i], designData)
    /\ UNCHANGED <<isLoggedIn, token, isLoggingIn, loginReqs, lastLoginToken>>

\* a 2xx response: setDesignResult, then generateMermaidERD, which either
\* returns (setDatabaseSchema) or throws (catch: setError); then finally
handleGenerateDesignSuccess(i, designData) ==
    /\ i \in 1..Len(genReqs)
    /\ designResult' = StringifyOf[designData]
    /\ IF ThrowsOf[designData]
       THEN /\ error' = GenerateFailedMsg
            /\ UNCHANGED databaseSchema
       ELSE /\ databaseSchema' = generateMermaidERDOf[designData]
            /\ UNCHANGED error
    /\ isGeneratingDesign' = FALSE
    /\ genReqs' = MarkOvertaken(RemoveAt(genReqs, i), i)
    /\ last' = GenSuccessStep(IF ThrowsOf[designData]
                              THEN "generateMalformed" ELSE "generateSuccess",
                              genReqs[i], designData)
    /\ UNCHANGED <<isLoggedIn, token, isLoggingIn, loginReqs, lastLoginToken>>

\* the catch block also ending the session
handleGenerateDesignFailure_AutoLogout(i) ==
    /\ i \in 1..Len(genReqs)
    /\ error' = GenerateFailedMsg
    /\ isLoggedIn' = FALSE
    /\ token' = EmptyToken
    /\ isGeneratingDesign' = FALSE
    /\ genReqs' = MarkOvertaken(RemoveAt(genReqs, i), i)
    /\ last' = GenStep("generateFailure", genReqs[i])
    /\ UNCHANGED <<isLoggingIn, designResult, databaseSchema,
                   loginReqs, lastLoginToken>>

\* axios.post rejects (non-2xx, network): catch, then finally
handleGenerateDesignFailure(i) ==
    /\ i \in 1..Len(genReqs)
    /\ error' = GenerateFailedMsg
    /\ isGeneratingDesign' = FALSE
    /\ genReqs' = MarkOvertaken(RemoveAt(genReqs, i), i)
    /\ last' = GenStep("generateFailure", genReqs[i])
    /\ UNCHANGED <<isLoggedIn, token, isLoggingIn, designResult, databaseSchema,
                   loginReqs, lastLoginToken>>

\* ----------------------------------------------------------- handleLogout
\* logout without setToken('')
handleLogout_KeepsToken ==
    /\ isLoggedIn' = FALSE
    /\ designResult' = Null
    /\ databaseSchema' = Null
    /\ loginReqs' = MarkStale(loginReqs)
    /\ genReqs' = MarkStale(genReqs)
    /\ last' = Step("logout", FALSE)
    /\ UNCHANGED <<token, error, isLoggingIn, isGeneratingDesign, lastLoginToken>>

\* logout without setDatabaseSchema(null)
handleLogout_KeepsSchema ==
    /\ isLoggedIn' = FALSE
    /\ token' = EmptyToken
    /\ designResult' = Null
    /\ loginReqs' = MarkStale(loginReqs)
    /\ genReqs' = MarkStale(genReqs)
    /\ last' = Step("logout", FALSE)
    /\ UNCHANGED <<error, isLoggingIn, isGeneratingDesign, databaseSchema,
                   lastLoginToken>>

handleLogout ==
    /\ isLoggedIn' = FALSE
    /\ token' = EmptyToken
    /\ designResult' = Null
    /\ databaseSchema' = Null
    /\ loginReqs' = MarkStale(loginReqs)
    /\ genReqs' = MarkStale(genReqs)
    /\ last' = Step("logout", FALSE)
    /\ UNCHANGED <<error, isLoggingIn, isGeneratingDesign, lastLoginToken>>

\* ------------------------------------------------- responses (both specs)
LoginResponse ==
    \E i \in 1..Len(loginReqs) :
        \/ \E responseToken \in Tokens : handleLoginSuccess(i, responseToken)
        \/ handleLoginFailure(i)

GenerateResponse ==
    \E i \in 1..Len(genReqs) :
        \/ \E designData \in ResponseData : handleGenerateDesignSuccess(i, designData)
        \/ handleGenerateDesignFailure(i)

\* ------------------------------------------- Spec: handlers called freely
GenerateSubmit ==
    \E sourceType \in InputSourceTypes, connectionString \in InputConnectionStrings :
        handleGenerateDesignSubmit(sourceType, connectionString)

Next ==
    \/ handleLoginSubmit /\ UNCHANGED pureVars
    \/ GenerateSubmit /\ UNCHANGED pureVars
    \/ handleLogout /\ UNCHANGED pureVars
    \/ LoginResponse /\ UNCHANGED pureVars
    \/ GenerateResponse /\ UNCHANGED pureVars

Spec == Init /\ [][Next]_vars

\* -------------------------------------- SpecUI: through the rendered view
\* {!isLoggedIn ? <LoginForm/> : <DesignInterface/>}
LoginFormRendered == ~isLoggedIn
DesignInterfaceRendered == isLoggedIn
\* disabled={isLoggingIn} on the submit button and the required inputs
LoginSubmitEnabled == ~isLoggingIn
\* a generate button that is never disabled
GenerateEnabled_Always == TRUE
\* disabled={isGeneratingDesign} on the generate button
GenerateEnabled == ~isGeneratingDesign
\* a logout button that is never disabled
LogoutEnabled_Always == TRUE
\* disabled={isGeneratingDesign} on the logout button
LogoutEnabled == ~isGeneratingDesign
\* {designResult && !isGeneratingDesign && ( ... {databaseSchema && <Mermaid/>})}
DiagramShown ==
    /\ DesignInterfaceRendered
    /\ designResult \notin {Null, ""}
    /\ ~isGeneratingDesign
    /\ databaseSchema \notin {Null, ""}

SubmitLoginForm == LoginFormRendered /\ LoginSubmitEnabled /\ handleLoginSubmit
ClickGenerate == DesignInterfaceRendered /\ GenerateEnabled /\ GenerateSubmit
ClickLogout == DesignInterfaceRendered /\ LogoutEnabled /\ handleLogout

NextUI ==
    \/ SubmitLoginForm /\ UNCHANGED pureVars
    \/ ClickGenerate /\ UNCHANGED pureVars
    \/ ClickLogout /\ UNCHANGED pureVars
    \/ LoginResponse /\ UNCHANGED pureVars
    \/ GenerateResponse /\ UNCHANGED pureVars

SpecUI == Init /\ [][NextUI]_vars

\* SpecUIFair: SpecUI where the response of every call in flight arrives
LoginResponseArrives == LoginResponse /\ UNCHANGED pureVars
GenerateResponseArrives == GenerateResponse /\ UNCHANGED pureVars
SpecUIFair ==
    /\ Init
    /\ [][NextUI]_vars
    /\ WF_vars(LoginResponseArrives)
    /\ WF_vars(GenerateResponseArrives)

TypeOK ==
    /\ isLoggedIn \in BOOLEAN
    /\ token \in Tokens \cup {EmptyToken}
    /\ error \in {Null, LoginFailedMsg, GenerateFailedMsg}
    /\ isLoggingIn \in BOOLEAN
    /\ isGeneratingDesign \in BOOLEAN
    /\ designResult \in {Null} \cup {StringifyOf[d] : d \in ResponseData}
    /\ databaseSchema \in {Null} \cup {generateMermaidERDOf[d] : d \in WellFormedData}
    /\ Len(loginReqs) + Len(genReqs) <= MaxInFlight

\* ------------------- SpecPure: the pure functions applied to drawn inputs
MaxTables == 2

PureSourceTypes == {"", "csv", "api", "prompt", "database", "CSV"}
PureConnectionStrings == {"", "/data/x.csv", "http://h/api"}

PureTableNames == {"A", "B"}
PureColumnLists ==
    {<<>>,
     <<Col("int", "id", FALSE)>>,
     <<Col("text", "nm", TRUE), Col("int", "id", FALSE)>>}
\* relationships absent, empty, one entry, two entries
PureTables ==
    {TableNoRels(n, cs) : n \in PureTableNames, cs \in PureColumnLists}
    \cup {Table(n, cs, rs) : n \in PureTableNames, cs \in PureColumnLists,
                             rs \in {<<>>, <<Rel("A")>>, <<Rel("B"), Rel("A")>>}}
PureDesigns ==
    {Design(ts) : ts \in UNION {[1..n -> PureTables] : n \in 0..MaxTables}}

PureCalls ==
    {[fn |-> "sourceConfig", sourceType |-> st, connectionString |-> cs] :
        st \in PureSourceTypes, cs \in PureConnectionStrings}
    \cup {[fn |-> "generateMermaidERD", designData |-> d] : d \in PureDesigns}

InitPure ==
    /\ isLoggedIn = FALSE
    /\ token = EmptyToken
    /\ error = Null
    /\ isLoggingIn = FALSE
    /\ isGeneratingDesign = FALSE
    /\ designResult = Null
    /\ databaseSchema = Null
    /\ loginReqs = <<>>
    /\ genReqs = <<>>
    /\ last = Step("init", FALSE)
    /\ lastLoginToken = EmptyToken
    /\ call \in PureCalls
    /\ ret = NotReturned

ControllerVars == <<isLoggedIn, token, error, isLoggingIn, isGeneratingDesign,
                    designResult, databaseSchema, loginReqs, genReqs, last,
                    lastLoginToken>>

BuildSourceConfig ==
    /\ call.fn = "sourceConfig"
    /\ ~ret.done
    /\ ret' = Returned(SourceConfig(call.sourceType, call.connectionString))
    /\ UNCHANGED <<call, ControllerVars>>

CallGenerateMermaidERD ==
    /\ call.fn = "generateMermaidERD"
    /\ ~ret.done
    /\ ret' = Returned(generateMermaidERD(call.designData))
    /\ UNCHANGED <<call, ControllerVars>>

NextPure == BuildSourceConfig \/ CallGenerateMermaidERD

SpecPure == InitPure /\ [][NextPure]_vars

\* ================================================================ claims
Authenticated == isLoggedIn /\ token # EmptyToken
GenerateFailed(op) == op \in {"generateFailure", "generateMalformed"}

\* C1: handling a failed login response leaves the view LoggedOut and stores
\* no token: the step sets isLoggedIn to false and does not change token.
C1_FailedLoginStaysLoggedOut ==
    [][last'.op = "loginFailure" => (~isLoggedIn' /\ token' = token)]_vars
\* a failed login handled although an earlier login had stored a token
C1_Witness == last.op = "loginFailure" /\ ~isLoggedIn /\ token # EmptyToken

\* C2: generateDesign called without an authenticated Session sends no
\* request: in a state without a Session no step adds a generate-design call.
C2_NoRequestWithoutSession ==
    [][~Authenticated => Len(genReqs') <= Len(genReqs)]_vars

\* C3: right after logout the view is LoggedOut, the token is empty and the
\* raw design result and the diagram description are absent.
C3_LogoutResets ==
    last.op = "logout" =>
        /\ ~isLoggedIn
        /\ token = EmptyToken
        /\ designResult = Null
        /\ databaseSchema = Null
\* a logout taken while a request was still awaiting its response
C3_Witness == last.op = "logout" /\ Len(loginReqs) + Len(genReqs) > 0

\* C4: the response of a request that a logout has overtaken is discarded: it
\* does not move the view to LoggedIn and stores no token, design result or
\* diagram description.
C4_StaleResponseDiscarded ==
    [][last'.stale =>
        /\ (isLoggedIn' => isLoggedIn)
        /\ token' = token
        /\ designResult' = designResult
        /\ databaseSchema' = databaseSchema]_vars

\* C5: through the rendered controls at most one login call and at most one
\* generate-design call await their response at any time.
C5_AtMostOneInFlight == Len(loginReqs) <= 1 /\ Len(genReqs) <= 1
\* a generate call in flight, its submit control disabled
C5_Witness == Len(genReqs) = 1 /\ ~GenerateEnabled /\ DesignInterfaceRendered

\* C6: a failed generateDesign (a rejected call, or a 2xx body the transformer
\* throws on) handled while a result is stored leaves the stored raw result
\* and diagram description unchanged and sets only the error message.
C6_FailureKeepsResult ==
    [][(GenerateFailed(last'.op) /\ designResult # Null) =>
        /\ designResult' = designResult
        /\ databaseSchema' = databaseSchema
        /\ error' = GenerateFailedMsg]_vars

\* C7: a failed generateDesign leaves the view LoggedIn and the token
\* unchanged; the view starts LoggedOut and changes only from LoggedOut to
\* LoggedIn by a login success and from LoggedIn to LoggedOut by logout.
C7_ViewTransitions ==
    /\ ~isLoggedIn
    /\ [][/\ GenerateFailed(last'.op) => (isLoggedIn' /\ token' = token)
          /\ (isLoggedIn' # isLoggedIn) =>
                \/ isLoggedIn' /\ last'.op = "loginSuccess"
                \/ ~isLoggedIn' /\ last'.op = "logout"]_vars
\* a failed generation handled in the Design view
C7_Witness == GenerateFailed(last.op) /\ isLoggedIn /\ token # EmptyToken

\* C8: right after logout no failure message is set and neither operation is
\* marked in flight.
C8_LogoutResetsStatus ==
    last.op = "logout" => (error = Null /\ ~isLoggingIn /\ ~isGeneratingDesign)

\* C9 (as stated): while a generateDesign call is in flight the diagram
\* description of the previous result is no longer held.
C9_SubmitDiscardsDiagram == Len(genReqs) > 0 => databaseSchema = Null
\* C9 (amended): submitting a generateDesign call leaves the stored raw
\* result and diagram description unchanged; right after the submit the
\* diagram is only not displayed.
C9_SubmitKeepsDiagramHidden ==
    [][last'.op = "generateSubmit" =>
        /\ designResult' = designResult
        /\ databaseSchema' = databaseSchema
        /\ ~DiagramShown']_vars
\* a new call submitted while the diagram of the previous result is stored
C9_Witness ==
    last.op = "generateSubmit" /\ databaseSchema # Null /\ designResult # Null

\* C10: every generate-design call in flight carries the token of the login
\* response handled last, which is the stored token and is not empty.
C10_BearerIsSessionToken ==
    \A i \in 1..Len(genReqs) :
        /\ genReqs[i].bearer = lastLoginToken
        /\ genReqs[i].bearer = token
        /\ genReqs[i].bearer # EmptyToken
\* a call in flight carrying the token of the login handled last
C10_Witness ==
    /\ Len(genReqs) = 1
    /\ genReqs[1].bearer = "t2"
    /\ lastLoginToken = "t2"
    /\ error = Null

\* C11: the sourceConfig sent has path, equal to connectionString, exactly
\* when sourceType is csv, and url, equal to connectionString, exactly when
\* sourceType is api; in every other case the property is absent.
C11_SourceConfigDerivation ==
    (call.fn = "sourceConfig" /\ ret.done) =>
        /\ DOMAIN ret.value \subseteq {"path", "url"}
        /\ ("path" \in DOMAIN ret.value) <=> (call.sourceType = "csv")
        /\ ("url" \in DOMAIN ret.value) <=> (call.sourceType = "api")
        /\ \A k \in DOMAIN ret.value : ret.value[k] = call.connectionString
\* a prompt source: both properties absent
C11_Witness ==
    /\ call.fn = "sourceConfig"
    /\ ret.done
    /\ call.sourceType = "prompt"
    /\ call.connectionString = "/data/x.csv"
    /\ DOMAIN ret.value = {}

\* ---- the diagram description read back as lines
SplitLines(text) ==
    LET breaks == {i \in 1..Len(text) : SubSeq(text, i, i) = "\n"}
        \* position of the k-th line break, 0 for k = 0
        at(k) == IF k = 0 THEN 0
                 ELSE CHOOSE i \in breaks : Cardinality({j \in breaks : j < i}) = k - 1
        n == Cardinality(breaks)
        rest == IF at(n) < Len(text)
                THEN <<SubSeq(text, at(n) + 1, Len(text))>> ELSE <<>>
    IN  [k \in 1..n |-> SubSeq(text, at(k - 1) + 1, at(k) - 1)] \o rest

RECURSIVE Flatten(_)
Flatten(seqs) == IF Len(seqs) = 0 THEN <<>> ELSE Head(seqs) \o Flatten(Tail(seqs))
RECURSIVE SumSeq(_)
SumSeq(nums) == IF Len(nums) = 0 THEN 0 ELSE Head(nums) + SumSeq(Tail(nums))

HeaderLine == "erDiagram"
ExpectedEntityBlock(t) ==
    <<"    " \o t.name \o " {">>
    \o [j \in 1..Len(t.columns) |->
          "        " \o t.columns[j].type \o " " \o t.columns[j].name]
    \o <<"    }">>
ExpectedRelationshipLines(t) ==
    [k \in 1..Len(t.relationships) |->
        "    " \o t.relationships[k].targetTable \o " }o--|| " \o t.name \o " : relates"]
\* number of lines of the header and of the entity blocks of the first n tables
BlockLinesBefore(tables, n) ==
    1 + SumSeq([i \in 1..n |-> 2 + Len(tables[i].columns)])
ErdReturned == call.fn = "generateMermaidERD" /\ ret.done

\* C12: the output is the header line, then one entity block per table in
\* table order (one line per column in column order), then the relationship
\* lines in table order and, within a table, in relationship order.
C12_TransformOrder ==
    ErdReturned =>
        LET tables == call.designData.tables
        IN  SplitLines(ret.value) =
                <<HeaderLine>>
                \o Flatten([i \in 1..Len(tables) |-> ExpectedEntityBlock(tables[i])])
                \o Flatten([i \in 1..Len(tables) |->
                              ExpectedRelationshipLines(tables[i])])
\* the first of two tables has relationships: its lines follow the second block
C12_Witness ==
    /\ ErdReturned
    /\ Len(call.designData.tables) = 2
    /\ Len(call.designData.tables[1].relationships) = 2
    /\ Len(call.designData.tables[2].columns) = 2
    /\ Len(call.designData.tables[2].relationships) = 1

\* C13: the lines after the entity blocks are as many as there are
\* relationship entries in all tables, none for a table whose relationships
\* are empty or absent, and each reads "<targetTable> }o--|| <owning table> :
\* relates".
C13_RelationshipLines ==
    ErdReturned =>
        LET tables == call.designData.tables
            lines == SplitLines(ret.value)
            first == BlockLinesBefore(tables, Len(tables))
            \* line number of relationship k of table i
            at(i, k) == first + k
                + SumSeq([j \in 1..(i - 1) |->
                            IF tables[j].hasRelationships
                            THEN Len(tables[j].relationships) ELSE 0])
        IN  /\ Len(lines) - first =
                 SumSeq([i \in 1..Len(tables) |-> Len(tables[i].relationships)])
            /\ \A i \in 1..Len(tables) : \A k \in 1..Len(tables[i].relationships) :
                 lines[at(i, k)] =
                     "    " \o tables[i].relationships[k].targetTable
                     \o " }o--|| " \o tables[i].name \o " : relates"
\* one table without the relationships property, one with two entries
C13_Witness ==
    /\ ErdReturned
    /\ Len(call.designData.tables) = 2
    /\ ~call.designData.tables[1].hasRelationships
    /\ call.designData.tables[2].name = "A"
    /\ call.designData.tables[2].relationships = <<Rel("B"), Rel("A")>>

\* C14: for zero tables the output is the header line and nothing else; a
\* table with zero columns has an entity block of an opening line directly
\* followed by the closing line.
C14_EmptyCases ==
    ErdReturned =>
        LET tables == call.designData.tables
            lines == SplitLines(ret.value)
        IN  /\ Len(tables) = 0 => ret.value = "erDiagram\n"
            /\ \A i \in 1..Len(tables) :
                 Len(tables[i].columns) = 0 =>
                     LET open == BlockLinesBefore(tables, i - 1) + 1
                     IN  /\ open + 1 <= Len(lines)
                         /\ lines[open] = "    " \o tables[i].name \o " {"
                         /\ lines[open + 1] = "    }"
\* a table with zero columns between nothing and a table with columns
C14_Witness ==
    /\ ErdReturned
    /\ Len(call.designData.tables) = 2
    /\ Len(call.designData.tables[1].columns) = 0
    /\ Len(call.designData.tables[2].columns) = 1

\* C15: handling a successful login response stores the response's token,
\* moves the view from LoggedOut to LoggedIn, and leaves no design result and
\* no diagram description held in the resulting state.
C15_LoginSuccessEstablishesSession ==
    [][last'.op = "loginSuccess" =>
        /\ ~isLoggedIn /\ isLoggedIn'
        /\ token' = lastLoginToken'
        /\ token' \in Tokens
        /\ designResult' = Null
        /\ databaseSchema' = Null]_vars
\* a session established by a response carrying the token t2
C15_Witness ==
    /\ last.op = "loginSuccess"
    /\ isLoggedIn
    /\ token = "t2"
    /\ error = Null
    /\ designResult = Null

\* C16: every login or generate-design call in flight whose response arrives
\* leaves the InFlight status: the call is no longer in flight and the loading
\* flag of the operation is cleared, whatever the response.
C16_InFlightEnds ==
    /\ (Len(loginReqs) > 0) ~> (Len(loginReqs) = 0 /\ ~isLoggingIn)
    /\ (Len(genReqs) > 0) ~> (Len(genReqs) = 0 /\ ~isGeneratingDesign /\ GenerateEnabled)
\* a response the transformer threw on, handled: generate can be clicked again
C16_Witness ==
    /\ last.op = "generateMalformed"
    /\ Len(genReqs) = 0
    /\ ~isGeneratingDesign
    /\ DesignInterfaceRendered /\ GenerateEnabled

\* C17: a 2xx response the transformer accepts overwrites the stored design
\* result and diagram description with its own, whether or not its request was
\* sent before that of a response handled earlier.
C17_LastResponseWins ==
    last.op = "generateSuccess" =>
        /\ designResult = StringifyOf[last.data]
        /\ databaseSchema = generateMermaidERDOf[last.data]
\* both calls resolved, the one sent first resolving last with D_Orders
C17_Witness ==
    /\ last.op = "generateSuccess"
    /\ last.overtaken
    /\ ~last.stale
    /\ Len(genReqs) = 0
    /\ last.data = D_Orders
    /\ designResult = StringifyOf[D_Orders]

\* C18: through the rendered controls every logout happens in a state with no
\* generate-design call in flight.
C18_NoLogoutWhileGenerating ==
    last.op = "logout" => (Len(genReqs) = 0 /\ ~isGeneratingDesign)
\* a logout after a generation has completed with a failure
C18_Witness == last.op = "logout" /\ error = GenerateFailedMsg /\ Len(genReqs) = 0

\* C19: whenever the view is LoggedOut the token is empty and the raw design
\* result and the diagram description are absent.
C19_LoggedOutIsCleared ==
    ~isLoggedIn =>
        /\ token = EmptyToken
        /\ designResult = Null
        /\ databaseSchema = Null
\* LoggedOut after a failed login that followed an earlier session
C19_Witness ==
    /\ ~isLoggedIn
    /\ last.op = "loginFailure"
    /\ lastLoginToken # EmptyToken

\* C20: the stored raw design result and diagram description are both absent,
\* or both come from the same response, the diagram description being the
\* transform of that response's design.
C20_ResultAndDiagramBelongTogether ==
    \/ designResult = Null /\ databaseSchema = Null
    \/ \E d \in WellFormedData :
         /\ designResult = StringifyOf[d]
         /\ databaseSchema = generateMermaidERDOf[d]

====
